---- MODULE Spec2Model ----
(***************************************************************************)
(* Flowist: the audio/text streaming pipeline of                           *)
(* app/api/v1/meditation.py (create_meditation_audio_text_stream.generate) *)
(* together with the synthesis wrapper AudioService.generate_audio_from_   *)
(* text and the in-memory SessionAudioManager cache.                       *)
(* Spec is generate() with its cache; CacheSpec is the SessionAudioManager  *)
(* under direct calls of store_chunk, cleanup and the retrieval endpoint;   *)
(* ParserSpec is the ScriptParser of app/audio_service/script_parser.py     *)
(* under the calls of a caller that streams text to it.                     *)
(*                                                                         *)
(* Text is a sequence of characters; a character is a short string.  The   *)
(* characters that the regular expressions of the code tell apart have     *)
(* names (TLA+ strings are ASCII):                                         *)
(*   FS = U+3002 ideographic full stop, EX = U+FF01, QM = U+FF1F,          *)
(*   NL = newline, SP = space; "[", "]", "s" and the digits are            *)
(*   themselves; every other string is an ordinary character.              *)
(* Audio bytes are records [seg, failed]: the segment whose backend call    *)
(* produced the byte, and whether that call has raised since (the bytes a  *)
(* call yielded are marked when the call raises, wherever they are by      *)
(* then).                                                                  *)
(***************************************************************************)
EXTENDS Integers, Sequences, FiniteSets, TLC

VARIABLES
    pc,               \* position of generate() (the suspension point it is at)
    sentence_buffer,  \* meditation.py:300
    sentence_count,   \* meditation.py:301
    processed_hashes, \* meditation.py:302
    sentence,         \* meditation.py:321
    audio_data,       \* meditation.py:358/367
    attempt,          \* tenacity's attempt number of the running AsyncRetrying
    events,           \* what generate() has yielded so far, in order
    chunks_read,      \* number of chunks the generation source has delivered
    svc_audio_data,   \* audio_service.py:103 (local of generate_audio_from_text)
    cache,            \* SessionAudioManager._cache
    last_cleanup,     \* SessionAudioManager._last_cleanup
    now,              \* time.time()
    attempts_made,    \* history: attempts started for the segment in synthesis
    last_fail,        \* history: how the previous attempt of this segment failed
    stored,           \* history: the calls store_chunk(session, seq, data) made
    exhausted,        \* history: the segments whose attempts were all used up
    delivered,        \* history: the chunks the generation source delivered
    gen_state,        \* history: the generation source is "open", "ended" or "raised"
    synth_failed,     \* history: some synthesis attempt of this stream failed
    skipped,          \* history: the sentences dropped as duplicates
    flush_seq,        \* history: seq of the text event made from the remainder, or 0
    api_op,           \* the last call made on the SessionAudioManager and its outcome
    api_latest,       \* history: the bytes last stored under each key still cached
    api_calls,        \* number of calls made on the SessionAudioManager
    buffer,           \* audio_service.py:201 (the caller's buffer between calls)
    full_text,        \* script_parser.py:167 (of the last parse_streaming call)
    segments,         \* what the last parse_streaming call returned as segments
    script,           \* all the text handed to the ScriptParser so far
    parse_result,     \* what parse(script) returned, when it was the last call
    parser_op,        \* the last ScriptParser call
    parser_calls,     \* number of parse_streaming calls made
    seg_index,        \* audio_service.py:208: the segment of segments to process next
    chunk_out,        \* the AudioChunk _process_segment yielded last (type, byte count)
    backend_calls,    \* number of calls of provider.generate_audio_stream
    svc_state,        \* generate_audio_stream is "running" or has "raised"
    silence,          \* the last direct call of generate_silence and what it returned
    cancelled         \* history: the client has disconnected from the stream

vars == <<pc, sentence_buffer, sentence_count, processed_hashes, sentence,
          audio_data, attempt, events, chunks_read, svc_audio_data, cache,
          last_cleanup, now, attempts_made, last_fail, stored, exhausted,
          delivered, gen_state, synth_failed, skipped, flush_seq,
          api_op, api_latest, api_calls,
          buffer, full_text, segments, script, parse_result, parser_op,
          parser_calls, seg_index, chunk_out, backend_calls, svc_state,
          silence, cancelled>>

\* the state of generate() and its history
stream_vars == <<pc, sentence_buffer, sentence_count, processed_hashes, sentence,
                 audio_data, attempt, events, chunks_read, svc_audio_data,
                 attempts_made, last_fail, stored, exhausted, delivered,
                 gen_state, synth_failed, skipped, flush_seq, cancelled>>

\* the state of the calls made directly on the SessionAudioManager
cache_api_vars == <<api_op, api_latest, api_calls>>

\* the state of a caller of the ScriptParser
parser_vars == <<buffer, full_text, segments, script, parse_result, parser_op,
                 parser_calls, seg_index, chunk_out, backend_calls, svc_state,
                 silence>>

----------------------------------------------------------------------------
(* Characters *)

FS == "FS"
EX == "EX"
QM == "QM"
NL == "NL"
SP == " "

Digits == {"0", "1", "2", "3", "4", "5", "6", "7", "8", "9"}

DigitValue(d) ==
    CASE d = "0" -> 0 [] d = "1" -> 1 [] d = "2" -> 2 [] d = "3" -> 3
      [] d = "4" -> 4 [] d = "5" -> 5 [] d = "6" -> 6 [] d = "7" -> 7
      [] d = "8" -> 8 [] d = "9" -> 9

\* str.strip() removes leading and trailing whitespace
Whitespace == {SP, NL}

\* [。！？] of the pipeline's pattern
IsTerminator(c) == c \in {FS, EX, QM}

\* [^。！？\n] of the pipeline's pattern
InSentenceClass(c) == c \notin {FS, EX, QM, NL}

----------------------------------------------------------------------------
(* Strings *)

\* s[i:] of Python for a 1-based index i of the first kept character
From(s, i) == SubSeq(s, i, Len(s))

RECURSIVE LStrip(_)
LStrip(s) ==
    IF s # <<>> /\ Head(s) \in Whitespace THEN LStrip(Tail(s)) ELSE s

RECURSIVE RStrip(_)
RStrip(s) ==
    IF s # <<>> /\ s[Len(s)] \in Whitespace
    THEN RStrip(SubSeq(s, 1, Len(s) - 1)) ELSE s

Strip(s) == RStrip(LStrip(s))

\* int("<digits>")
RECURSIVE ParseInt(_)
ParseInt(ds) ==
    IF ds = <<>> THEN 0
    ELSE 10 * ParseInt(SubSeq(ds, 1, Len(ds) - 1)) + DigitValue(ds[Len(ds)])

----------------------------------------------------------------------------
(* The pipeline's pattern ([^。！？\n]+[。！？]|\[\d+s\]), meditation.py:317 *)

\* index of the first character at or after i that ends a run of class
\* characters (Len(buf) + 1 when the run reaches the end of the buffer)
RECURSIVE RunEnd(_, _)
RunEnd(buf, i) ==
    IF i <= Len(buf) /\ InSentenceClass(buf[i]) THEN RunEnd(buf, i + 1) ELSE i

RECURSIVE DigitsEnd(_, _)
DigitsEnd(buf, i) ==
    IF i <= Len(buf) /\ buf[i] \in Digits THEN DigitsEnd(buf, i + 1) ELSE i

\* first alternative, anchored at i: index of the terminator that closes the
\* match, 0 when it does not match.  The greedy run is the only candidate:
\* a shorter run is followed by a class character, never by a terminator.
SentenceMatchEnd(buf, i) ==
    IF i <= Len(buf) /\ InSentenceClass(buf[i])
    THEN LET j == RunEnd(buf, i)
         IN  IF j <= Len(buf) /\ IsTerminator(buf[j]) THEN j ELSE 0
    ELSE 0

\* \[\d+s\] anchored at i: index of the closing bracket, 0 when no match
PauseMatchEnd(buf, i) ==
    IF i <= Len(buf) /\ buf[i] = "["
    THEN LET j == DigitsEnd(buf, i + 1)
         IN  IF j > i + 1 /\ j + 1 <= Len(buf) /\ buf[j] = "s" /\ buf[j + 1] = "]"
             THEN j + 1 ELSE 0
    ELSE 0

\* the alternation anchored at i: the first alternative is tried first
MatchEndAt(buf, i) ==
    IF SentenceMatchEnd(buf, i) # 0 THEN SentenceMatchEnd(buf, i)
    ELSE PauseMatchEnd(buf, i)

NoMatch == [found |-> FALSE, start |-> 0, end |-> 0]

\* re.search: the leftmost position at which the pattern matches
RECURSIVE SearchFrom(_, _)
SearchFrom(buf, i) ==
    IF i > Len(buf) THEN NoMatch
    ELSE IF MatchEndAt(buf, i) # 0
         THEN [found |-> TRUE, start |-> i, end |-> MatchEndAt(buf, i)]
         ELSE SearchFrom(buf, i + 1)

Search(buf) == SearchFrom(buf, 1)

\* match.group(1)
Group(buf, m) == SubSeq(buf, m.start, m.end)

\* sentence_buffer[match.end():]
AfterMatch(buf, m) == From(buf, m.end + 1)

\* sentence.startswith('[') and sentence.endswith(']'), meditation.py:347
LooksLikeMarker(s) == s # <<>> /\ s[1] = "[" /\ s[Len(s)] = "]"

\* re.search(r'\[(\d+)s\]', sentence), meditation.py:348
RECURSIVE PauseSearchFrom(_, _)
PauseSearchFrom(s, i) ==
    IF i > Len(s) THEN NoMatch
    ELSE IF PauseMatchEnd(s, i) # 0
         THEN [found |-> TRUE, start |-> i, end |-> PauseMatchEnd(s, i)]
         ELSE PauseSearchFrom(s, i + 1)

PauseSearch(s) == PauseSearchFrom(s, 1)

\* int(pause_match.group(1)), meditation.py:350
PauseDuration(s, m) == ParseInt(SubSeq(s, m.start + 1, m.end - 2))

\* hashlib.md5(sentence.encode('utf-8')).hexdigest(): the fingerprint of a
\* sentence; two sentences have the same fingerprint iff they are equal
\* (MD5 collisions are not modelled)
Md5(s) == s

\* variant: the fingerprint check never finds a sentence
IsDuplicate_Never(s, hashes) == FALSE

\* sentence_hash in processed_hashes, meditation.py:328-329
IsDuplicate(s, hashes) == Md5(s) \in hashes

----------------------------------------------------------------------------
(* SessionAudioManager, app/core/session_audio.py.  _cache maps a session   *)
(* id to a dict; a Python dict keeps insertion order, and assigning to an   *)
(* existing key keeps the key's position, so the inner dict is a sequence   *)
(* of entries [seq, data, ts] with pairwise distinct seq.                   *)

CleanupInterval == 3600
DefaultMaxAge == 3600

EmptyCache == [sid \in {} |-> <<>>]

HasKey(chunks, seq_id) == \E i \in 1..Len(chunks) : chunks[i].seq = seq_id

\* variant: a store to an existing key appends to what is there
SetEntry_Appends(chunks, seq_id, data, t) ==
    IF HasKey(chunks, seq_id)
    THEN [i \in 1..Len(chunks) |->
             IF chunks[i].seq = seq_id
             THEN [seq |-> seq_id, data |-> chunks[i].data \o data, ts |-> t]
             ELSE chunks[i]]
    ELSE Append(chunks, [seq |-> seq_id, data |-> data, ts |-> t])

\* chunks[seq_id] = (audio_data, t)
SetEntry(chunks, seq_id, data, t) ==
    IF HasKey(chunks, seq_id)
    THEN [i \in 1..Len(chunks) |->
             IF chunks[i].seq = seq_id
             THEN [seq |-> seq_id, data |-> data, ts |-> t] ELSE chunks[i]]
    ELSE Append(chunks, [seq |-> seq_id, data |-> data, ts |-> t])

\* variant: the entry is written into every session of the cache
PutChunk_AllSessions(c, session_id, seq_id, data, t) ==
    [sid \in DOMAIN c \cup {session_id} |->
        SetEntry(IF sid \in DOMAIN c THEN c[sid] ELSE <<>>, seq_id, data, t)]

\* session_audio.py:21-24
PutChunk(c, session_id, seq_id, data, t) ==
    LET old == IF session_id \in DOMAIN c THEN c[session_id] ELSE <<>>
    IN  [sid \in DOMAIN c \cup {session_id} |->
            IF sid = session_id THEN SetEntry(old, seq_id, data, t) ELSE c[sid]]

\* the sessions cleanup() puts on sessions_to_remove, session_audio.py:42-52
SessionsToRemove(c, max_age_seconds, t) ==
    {sid \in DOMAIN c :
        \/ c[sid] = <<>>
        \/ t - c[sid][1].ts > max_age_seconds}

\* variant: cleanup drops the old entries one by one
Cleanup_PerEntry(c, max_age_seconds, t) ==
    [sid \in DOMAIN c \ SessionsToRemove(c, max_age_seconds, t) |->
        SelectSeq(c[sid], LAMBDA e : ~(t - e.ts > max_age_seconds))]

\* cleanup(), session_audio.py:37-58 (the cache it leaves)
Cleanup(c, max_age_seconds, t) ==
    [sid \in DOMAIN c \ SessionsToRemove(c, max_age_seconds, t) |-> c[sid]]

\* the periodic check of store_chunk, session_audio.py:28
CleanupDue(last, t) == t - last > CleanupInterval

\* store_chunk(), session_audio.py:19-29 (the cache it leaves)
StoreChunk(c, last, session_id, seq_id, data, t) ==
    LET c1 == PutChunk(c, session_id, seq_id, data, t)
    IN  IF CleanupDue(last, t) THEN Cleanup(c1, DefaultMaxAge, t) ELSE c1

\* _last_cleanup after store_chunk()
LastCleanupAfterStore(last, t) == IF CleanupDue(last, t) THEN t ELSE last

NotFound == "None"

\* get_chunk(), session_audio.py:31-35
GetChunk(c, session_id, seq_id) ==
    IF session_id \in DOMAIN c /\ HasKey(c[session_id], seq_id)
    THEN (CHOOSE e \in {c[session_id][i] : i \in 1..Len(c[session_id])} :
              e.seq = seq_id).data
    ELSE NotFound

----------------------------------------------------------------------------
(* Bounds and inputs *)

\* chunks the generation source may deliver in one stream
MaxChunks == 2

\* byte chunks one backend call may yield
MaxProviderChunks == 1

\* clock ticks in one run
MaxTicks == 2

\* the clock advances in steps of just over half the cleanup interval
TickSteps == {1801}

\* stop_after_attempt(5), meditation.py:361
MaxAttempts == 5

\* str(uuid.uuid4()), meditation.py:291
SessionId == "s1"

\* the end-to-end scenario's text, split as the generation source splits it
ScenarioChunk1 == <<"jin", "tian", "hen", "lei", FS, "[">>
ScenarioChunk2 == <<"5", "s", "]", "fang", "song", "yi", "xia", FS>>

\* the chunks the generation source can deliver
GenChunks ==
    { ScenarioChunk1, ScenarioChunk2,
      <<"a", FS>>, <<SP, "a", FS>>, <<SP, FS, FS>>, <<"b">>, <<FS>>, <<NL>>,
      <<"[", "5", "s", "]">>, <<"[", "0", "s", "]">> }

\* a byte a backend call for segment seg yields
ProviderByte(seg) == [seg |-> seg, failed |-> FALSE]

\* the bytes of a backend call that raised
MarkFailed(data) == [i \in 1..Len(data) |-> [data[i] EXCEPT !.failed = TRUE]]

----------------------------------------------------------------------------
(* The events generate() yields, meditation.py:297-426 *)

SessionStartEvent(sid) == [type |-> "session_start", session_id |-> sid]
TextEvent(n, content) == [seq |-> n, type |-> "text", content |-> content]
PauseEvent(n, duration) == [seq |-> n, type |-> "pause", duration |-> duration]
DoneEvent(n) == [seq |-> n, type |-> "done"]
ErrorEvent == [type |-> "error", message |-> "str(e)"]

\* audio_info.info.length, or len(audio_data) / (128000 / 8): a function of
\* the bytes alone; the model keeps the byte count
AudioDuration(data) == Len(data)

\* variant: the reference is numbered one past its sentence
AudioRefEvent_OffByOne(sid, n, text, data) ==
    [seq |-> n + 1, type |-> "audio_ref", url |-> <<sid, n + 1>>, text |-> text,
     duration |-> AudioDuration(data)]

\* meditation.py:397-405
AudioRefEvent(sid, n, text, data) ==
    [seq |-> n, type |-> "audio_ref", url |-> <<sid, n>>, text |-> text,
     duration |-> AudioDuration(data)]

----------------------------------------------------------------------------
(* AudioService.generate_audio_from_text, audio_service.py:80-123 *)

\* variant: what was collected is yielded even when the backend raised
ServiceYield_KeepsPartial(collected, raised) == << [data |-> collected] >>

\* the AudioChunks the call yields once the backend stream has ended
\* (raised = FALSE) or raised (raised = TRUE) after yielding collected:
\* one chunk holding everything on a normal end (line 114), nothing when the
\* backend raised (the except of line 120 swallows the error)
ServiceYield(collected, raised) ==
    IF raised THEN <<>> ELSE << [data |-> collected] >>

\* meditation.py:368-370: audio_data += audio_chunk.data for every yielded
\* chunk whose data is not empty
RECURSIVE Accumulate(_, _)
Accumulate(data, chunks) ==
    IF chunks = <<>> THEN data
    ELSE Accumulate(IF Head(chunks).data # <<>> THEN data \o Head(chunks).data
                    ELSE data,
                    Tail(chunks))

\* meditation.py:367: the buffer an attempt starts from
AttemptBuffer(previous) == <<>>

\* variant: an empty result is taken for a success
AttemptFails_Never(data) == FALSE

\* meditation.py:374: an attempt that collected nothing raises
AttemptFails(data) == data = <<>>

\* variant: one attempt more than the limit
RetryAllowed_OneMore(n) == n <= MaxAttempts

\* stop_after_attempt(5) with retry_if_exception_type(Exception): tenacity
\* retries a failed attempt while the attempt number is below the limit
RetryAllowed(n) == n < MaxAttempts

----------------------------------------------------------------------------
(* ScriptParser, script_parser.py.  PAUSE_PATTERN (line 46) is the pattern  *)
(* \[(\d+)s\] that PauseSearch looks for; SENTENCE_ENDINGS (line 47) is a   *)
(* run of the characters below.                                             *)

\* [。！？.!?\n] of SENTENCE_ENDINGS
IsSentenceEnding(c) == c \in {FS, EX, QM, ".", "!", "?", NL}

\* ScriptSegment(type=TEXT, content=...) and ScriptSegment(type=PAUSE,
\* duration=...), with the dataclass defaults for the other field
TextSegment(content) == [type |-> "text", content |-> content, duration |-> 0]
PauseSegment(duration) == [type |-> "pause", content |-> <<>>, duration |-> duration]

\* index after the run of characters that are not sentence endings at i
RECURSIVE TextRunEnd(_, _)
TextRunEnd(text, i) ==
    IF i <= Len(text) /\ ~IsSentenceEnding(text[i]) THEN TextRunEnd(text, i + 1) ELSE i

\* index after the run of sentence endings at i
RECURSIVE EndingRunEnd(_, _)
EndingRunEnd(text, i) ==
    IF i <= Len(text) /\ IsSentenceEnding(text[i]) THEN EndingRunEnd(text, i + 1) ELSE i

\* _split_sentences from index i on: SENTENCE_ENDINGS.split alternates text
\* and punctuation; each text with the punctuation after it is one
\* sentence, stripped, and kept when something is left
RECURSIVE SplitSentencesFrom(_, _)
SplitSentencesFrom(text, i) ==
    IF i > Len(text) THEN <<>>
    ELSE LET j == EndingRunEnd(text, TextRunEnd(text, i))
             current == Strip(SubSeq(text, i, j - 1))
         IN  (IF current # <<>> THEN <<current>> ELSE <<>>)
                 \o SplitSentencesFrom(text, j)

\* _split_sentences, script_parser.py:98-128
SplitSentences(text) == SplitSentencesFrom(text, 1)

\* the TEXT segments appended for the sentences of a text,
\* script_parser.py:73-79 and 201-207
TextSegments(text) ==
    LET sentences == SplitSentences(text)
    IN  [i \in 1..Len(sentences) |-> TextSegment(Strip(sentences[i]))]

\* last_sentence_end, script_parser.py:193-195: the number of characters up
\* to the end of the last run of sentence endings, 0 when there is none
\* (where the code has -1; it tests last_sentence_end > 0)
RECURSIVE LastSentenceEnd(_)
LastSentenceEnd(text) ==
    IF text = <<>> THEN 0
    ELSE IF IsSentenceEnding(text[Len(text)]) THEN Len(text)
         ELSE LastSentenceEnd(SubSeq(text, 1, Len(text) - 1))

\* parse_streaming, script_parser.py:154-212
ParseStreaming(text_chunk, buf) ==
    LET text == buf \o text_chunk
        pause_match == PauseSearch(text)
        before_pause == SubSeq(text, 1, pause_match.start - 1)
        last_sentence_end == LastSentenceEnd(text)
    IN  IF pause_match.found
        THEN [segments |->
                 (IF Strip(before_pause) # <<>>
                  THEN <<TextSegment(Strip(before_pause))>> ELSE <<>>)
                 \o <<PauseSegment(PauseDuration(text, pause_match))>>,
              remaining |-> AfterMatch(text, pause_match)]
        ELSE IF last_sentence_end > 0
             THEN [segments |-> TextSegments(SubSeq(text, 1, last_sentence_end)),
                   remaining |-> From(text, last_sentence_end + 1)]
             ELSE [segments |-> <<>>, remaining |-> text]

\* PAUSE_PATTERN.split(script), script_parser.py:62: the texts between the
\* markers, each marker replaced by its digits
RECURSIVE PauseSplit(_)
PauseSplit(text) ==
    LET m == PauseSearch(text)
    IN  IF ~m.found THEN <<text>>
        ELSE <<SubSeq(text, 1, m.start - 1), SubSeq(text, m.start + 1, m.end - 2)>>
                 \o PauseSplit(AfterMatch(text, m))

\* the condition of script_parser.py:69 for parts[k] (k counts from 1):
\* i > 0 and parts[i-1] == '' or (i > 0 and
\* PAUSE_PATTERN.match(f"[{part}s]") is None)
IsTextContent(parts, k) ==
    \/ k > 1 /\ parts[k - 1] = <<>>
    \/ k > 1 /\ PauseMatchEnd(<<"[">> \o parts[k] \o <<"s", "]">>, 1) = 0

\* the while loop of parse, script_parser.py:64-94, from parts[k] on
RECURSIVE ParseLoop(_, _)
ParseLoop(parts, k) ==
    IF k > Len(parts) THEN <<>>
    ELSE (IF IsTextContent(parts, k) /\ Strip(parts[k]) # <<>>
          THEN TextSegments(parts[k]) ELSE <<>>)
         \o (IF k + 1 <= Len(parts)
             THEN <<PauseSegment(ParseInt(parts[k + 1]))>> \o ParseLoop(parts, k + 2)
             ELSE ParseLoop(parts, k + 1))

\* _merge_and_clean, script_parser.py:130-152
MergeAndClean(segs) ==
    SelectSeq(segs, LAMBDA segment :
        /\ ~(segment.type = "text" /\ Strip(segment.content) = <<>>)
        /\ ~(segment.type = "pause" /\ segment.duration <= 0))

\* parse, script_parser.py:49-96
Parse(text) == MergeAndClean(ParseLoop(PauseSplit(text), 1))

\* durations handed to generate_silence are multiples of 1 / DurationDen
\* seconds: floats for which sample_rate * duration_seconds is exact
DurationDen == 2

\* sample rate of generate_silence when none is given, base.py:79
DefaultSampleRate == 24000

\* variant: the number of samples is rounded up
NumSamples_RoundedUp(duration_num, sample_rate) ==
    (sample_rate * duration_num + DurationDen - 1) \div DurationDen

\* num_samples = int(sample_rate * duration_seconds), base.py:91; int()
\* truncates, and the product is not negative
NumSamples(duration_num, sample_rate) ==
    (sample_rate * duration_num) \div DurationDen

\* the length of bytes(num_samples * 2), base.py:92
SilenceSize(duration_num, sample_rate) == NumSamples(duration_num, sample_rate) * 2

\* generate_silence, base.py:78-92: bytes(n) is n zero bytes
GenerateSilence(duration_num, sample_rate) ==
    [i \in 1..SilenceSize(duration_num, sample_rate) |-> 0]

\* the durations and sample rates generate_silence is called with directly
MaxSilenceNum == 3
SilenceNums == 0..MaxSilenceNum
SampleRates == {1, 3, 5}

\* no direct call of generate_silence yet
NoSilence == [called |-> FALSE, duration_num |-> 0, sample_rate |-> 0, data |-> <<>>]

\* no AudioChunk yet
NoChunk == [type |-> "none", size |-> 0, duration |-> 0]

\* AudioChunk(type=SILENCE, data=generate_silence(segment.duration), ...),
\* audio_service.py:238-244; the model keeps the byte count of data
SilenceChunk(duration) ==
    [type |-> "silence",
     size |-> SilenceSize(duration * DurationDen, DefaultSampleRate),
     duration |-> duration]

\* the buffer "Hello.[3s]World."
HelloWorld ==
    <<"H", "e", "l", "l", "o", ".", "[", "3", "s", "]", "W", "o", "r", "l", "d", ".">>

\* the text chunks the parser's caller receives
ParserChunks ==
    { HelloWorld, <<"a", ".">>, <<"b", NL>>, <<SP, "c", FS, SP>>, <<"d">>,
      <<SP, "e", "!">>,
      <<"[", "3", "s", "]">>, <<"[", "0", "s", "]">>, <<"[", "3">>, <<"s", "]">> }

\* parse_streaming calls in one run
MaxParserCalls == 2

\* audio_service.py:203-205: segments, buffer =
\* self.parser.parse_streaming(text_chunk, buffer)
ParseStreamingCall(text_chunk) ==
    /\ parser_calls < MaxParserCalls
    /\ svc_state = "running"
    /\ seg_index > Len(segments)
    /\ seg_index' = 1
    /\ UNCHANGED <<chunk_out, backend_calls, svc_state, silence>>
    /\ full_text' = buffer \o text_chunk
    /\ segments' = ParseStreaming(text_chunk, buffer).segments
    /\ buffer' = ParseStreaming(text_chunk, buffer).remaining
    /\ script' = script \o text_chunk
    /\ parse_result' = <<>>
    /\ parser_op' = "parse_streaming"
    /\ parser_calls' = parser_calls + 1
    /\ UNCHANGED <<cache, last_cleanup, now, stream_vars, cache_api_vars>>

\* parser.parse(script) on the text received so far
ParseCall ==
    /\ parser_op # "parse"
    /\ parse_result' = Parse(script)
    /\ parser_op' = "parse"
    /\ UNCHANGED <<buffer, full_text, segments, script, parser_calls, seg_index,
                   chunk_out, backend_calls, svc_state, silence>>
    /\ UNCHANGED <<cache, last_cleanup, now, stream_vars, cache_api_vars>>

\* the variables of the parser's caller that processing a segment leaves alone
parse_state == <<buffer, full_text, segments, script, parse_result, parser_op,
                 parser_calls>>

\* audio_service.py:208-210 with _process_segment, 236-244: a PAUSE
\* segment becomes a SILENCE chunk made by generate_silence
ProcessPause ==
    /\ svc_state = "running"
    /\ seg_index <= Len(segments)
    /\ segments[seg_index].type = "pause"
    /\ chunk_out' = SilenceChunk(segments[seg_index].duration)
    /\ seg_index' = seg_index + 1
    /\ UNCHANGED <<backend_calls, svc_state, silence, parse_state>>
    /\ UNCHANGED <<cache, last_cleanup, now, stream_vars, cache_api_vars>>

\* audio_service.py:208-210 with _process_segment, 246-261: a TEXT segment
\* is sent to the backend, whose bytes become one AUDIO chunk
ProcessText ==
    /\ svc_state = "running"
    /\ seg_index <= Len(segments)
    /\ segments[seg_index].type = "text"
    /\ backend_calls' = backend_calls + 1
    /\ \E n \in 0..MaxProviderChunks :
          chunk_out' = [type |-> "audio", size |-> n, duration |-> 0]
    /\ seg_index' = seg_index + 1
    /\ UNCHANGED <<svc_state, silence, parse_state>>
    /\ UNCHANGED <<cache, last_cleanup, now, stream_vars, cache_api_vars>>

\* audio_service.py:249: the backend raises; nothing catches it in
\* _process_segment or generate_audio_stream
ProcessTextRaises ==
    /\ svc_state = "running"
    /\ seg_index <= Len(segments)
    /\ segments[seg_index].type = "text"
    /\ backend_calls' = backend_calls + 1
    /\ svc_state' = "raised"
    /\ UNCHANGED <<seg_index, chunk_out, silence, parse_state>>
    /\ UNCHANGED <<cache, last_cleanup, now, stream_vars, cache_api_vars>>

\* TTSProvider.generate_silence(duration_seconds, sample_rate), called
\* directly; the duration is duration_num / DurationDen seconds
GenerateSilenceCall(duration_num, sample_rate) ==
    /\ silence' = [called |-> TRUE, duration_num |-> duration_num,
                   sample_rate |-> sample_rate,
                   data |-> GenerateSilence(duration_num, sample_rate)]
    /\ silence' # silence
    /\ UNCHANGED <<seg_index, chunk_out, backend_calls, svc_state, parse_state>>
    /\ UNCHANGED <<cache, last_cleanup, now, stream_vars, cache_api_vars>>

ParserNext ==
    \/ \E text_chunk \in ParserChunks : ParseStreamingCall(text_chunk)
    \/ ParseCall
    \/ ProcessPause
    \/ ProcessText
    \/ ProcessTextRaises
    \/ \E d \in SilenceNums, r \in SampleRates : GenerateSilenceCall(d, r)

----------------------------------------------------------------------------
(* Calls made on the SessionAudioManager from outside generate():          *)
(* store_chunk, cleanup and the GET endpoint get_meditation_audio          *)

\* the session ids, seq ids and audio bytes the calls are made with
CacheSessions == {"s1", "s2"}
CacheSeqs == {1, 2}
CacheData == {<<ProviderByte(1)>>, <<ProviderByte(2)>>}

\* the max_age_seconds cleanup is called with: 0 and the default
MaxAges == {0, DefaultMaxAge}

\* calls made on the cache in one run
MaxCacheOps == 4

\* no call has been made yet
NoCall ==
    [name |-> "none", session_id |-> "", seq_id |-> 0, data |-> <<>>,
     replaced |-> <<>>, max_age |-> 0, swept |-> FALSE, after_store |-> "",
     t |-> 0, status |-> 0, content |-> <<>>, removed |-> {}]

\* session_audio.py:33: the key is in the cache
InCache(c, session_id, seq_id) ==
    session_id \in DOMAIN c /\ HasKey(c[session_id], seq_id)

\* HTTP status codes of get_meditation_audio
StatusOk == 200
StatusNotFound == 404

\* variant: the endpoint answers 200 with an empty body for an absent key
GetMeditationAudio_AlwaysOk(c, session_id, seq_id) ==
    IF InCache(c, session_id, seq_id)
    THEN [status |-> StatusOk, content |-> GetChunk(c, session_id, seq_id)]
    ELSE [status |-> StatusOk, content |-> <<>>]

\* get_meditation_audio, meditation.py:81-90: "if not audio_data" is true
\* for None and for empty bytes
GetMeditationAudio(c, session_id, seq_id) ==
    IF InCache(c, session_id, seq_id) /\ GetChunk(c, session_id, seq_id) # <<>>
    THEN [status |-> StatusOk, content |-> GetChunk(c, session_id, seq_id)]
    ELSE [status |-> StatusNotFound, content |-> <<>>]

\* the bytes last stored under each key, for the sessions still in c
LatestAfter(latest, c) ==
    [k \in {x \in DOMAIN latest : x[1] \in DOMAIN c} |-> latest[k]]

\* audio_manager.store_chunk(session_id, seq_id, data)
StoreCall(session_id, seq_id, data) ==
    /\ api_calls < MaxCacheOps
    /\ cache' = StoreChunk(cache, last_cleanup, session_id, seq_id, data, now)
    /\ last_cleanup' = LastCleanupAfterStore(last_cleanup, now)
    /\ api_op' = [NoCall EXCEPT
                     !.name = "store", !.session_id = session_id,
                     !.seq_id = seq_id, !.data = data,
                     !.replaced = IF InCache(cache, session_id, seq_id)
                                  THEN GetChunk(cache, session_id, seq_id)
                                  ELSE <<>>,
                     !.max_age = DefaultMaxAge,
                     !.swept = CleanupDue(last_cleanup, now), !.t = now,
                     !.removed =
                         IF CleanupDue(last_cleanup, now)
                         THEN SessionsToRemove(
                                  PutChunk(cache, session_id, seq_id, data, now),
                                  DefaultMaxAge, now)
                         ELSE {}]
    /\ api_latest' =
          LatestAfter([k \in DOMAIN api_latest \cup {<<session_id, seq_id>>} |->
                          IF k = <<session_id, seq_id>> THEN data ELSE api_latest[k]],
                      cache')
    /\ api_calls' = api_calls + 1
    /\ UNCHANGED <<now, stream_vars, parser_vars>>

\* GET /audio/{session_id}/{seq_id}
FetchCall(session_id, seq_id) ==
    /\ api_calls < MaxCacheOps
    /\ api_op' = [NoCall EXCEPT
                     !.name = "fetch", !.session_id = session_id,
                     !.seq_id = seq_id,
                     !.status = GetMeditationAudio(cache, session_id, seq_id).status,
                     !.content = GetMeditationAudio(cache, session_id, seq_id).content]
    /\ api_calls' = api_calls + 1
    /\ UNCHANGED <<cache, last_cleanup, now, api_latest, stream_vars, parser_vars>>

\* audio_manager.cleanup(max_age_seconds)
CleanupCall(max_age_seconds) ==
    /\ api_calls < MaxCacheOps
    /\ cache' = Cleanup(cache, max_age_seconds, now)
    /\ last_cleanup' = now
    /\ api_op' = [NoCall EXCEPT
                     !.name = "cleanup", !.max_age = max_age_seconds,
                     !.swept = TRUE, !.t = now,
                     !.removed = SessionsToRemove(cache, max_age_seconds, now),
                     !.after_store = IF api_op.name = "store"
                                     THEN api_op.session_id ELSE ""]
    /\ api_latest' = LatestAfter(api_latest, cache')
    /\ api_calls' = api_calls + 1
    /\ UNCHANGED <<now, stream_vars, parser_vars>>

\* time passes between two calls; two reads of the clock with no step of
\* this kind in between give the same value
TimePasses ==
    /\ \E dt \in TickSteps :
          /\ now + dt <= MaxTicks * dt
          /\ now' = now + dt
    /\ UNCHANGED <<cache, last_cleanup, cache_api_vars, stream_vars, parser_vars>>

CacheNext ==
    \/ \E sid \in CacheSessions, n \in CacheSeqs, b \in CacheData : StoreCall(sid, n, b)
    \/ \E sid \in CacheSessions, n \in CacheSeqs : FetchCall(sid, n)
    \/ \E a \in MaxAges : CleanupCall(a)
    \/ TimePasses

----------------------------------------------------------------------------
(* The state machine of generate() *)

Init ==
    /\ pc = "start"
    /\ sentence_buffer = <<>>
    /\ sentence_count = 0
    /\ processed_hashes = {}
    /\ sentence = <<>>
    /\ audio_data = <<>>
    /\ attempt = 0
    /\ events = <<>>
    /\ chunks_read = 0
    /\ svc_audio_data = <<>>
    /\ cache = EmptyCache
    /\ last_cleanup = 0
    /\ now = 0
    /\ attempts_made = 0
    /\ last_fail = "none"
    /\ stored = {}
    /\ exhausted = {}
    /\ delivered = <<>>
    /\ gen_state = "open"
    /\ synth_failed = FALSE
    /\ skipped = {}
    /\ flush_seq = 0
    /\ api_op = NoCall
    /\ api_latest = << >>
    /\ api_calls = 0
    /\ buffer = <<>>
    /\ full_text = <<>>
    /\ segments = <<>>
    /\ script = <<>>
    /\ parse_result = <<>>
    /\ parser_op = "none"
    /\ parser_calls = 0
    /\ seg_index = 1
    /\ chunk_out = NoChunk
    /\ backend_calls = 0
    /\ svc_state = "running"
    /\ silence = NoSilence
    /\ cancelled = FALSE

\* meditation.py:289-302
SessionStart ==
    /\ pc = "start"
    /\ events' = Append(events, SessionStartEvent(SessionId))
    /\ sentence_buffer' = <<>>
    /\ sentence_count' = 0
    /\ processed_hashes' = {}
    /\ pc' = "await_chunk"
    /\ UNCHANGED <<sentence, audio_data, attempt, chunks_read, svc_audio_data,
                   cache, last_cleanup, now, attempts_made, last_fail, stored, exhausted>>
    /\ UNCHANGED <<delivered, gen_state, synth_failed, skipped, flush_seq>>
    /\ UNCHANGED <<cancelled, cache_api_vars, parser_vars>>

\* meditation.py:305-309: the generation source delivers a chunk
GenChunk(c) ==
    /\ pc = "await_chunk"
    /\ chunks_read < MaxChunks
    /\ sentence_buffer' = sentence_buffer \o c
    /\ chunks_read' = chunks_read + 1
    /\ delivered' = Append(delivered, c)
    /\ pc' = "scan"
    /\ UNCHANGED <<sentence_count, processed_hashes, sentence, audio_data,
                   attempt, events, svc_audio_data, cache, last_cleanup, now,
                   attempts_made, last_fail, stored, exhausted>>
    /\ UNCHANGED <<gen_state, synth_failed, skipped, flush_seq>>
    /\ UNCHANGED <<cancelled, cache_api_vars, parser_vars>>

\* meditation.py:305: the generation source is exhausted
GenEnd ==
    /\ pc = "await_chunk"
    /\ gen_state' = "ended"
    /\ pc' = "drain"
    /\ UNCHANGED <<sentence_buffer, sentence_count, processed_hashes, sentence,
                   audio_data, attempt, events, chunks_read, svc_audio_data,
                   cache, last_cleanup, now, attempts_made, last_fail, stored, exhausted>>
    /\ UNCHANGED <<delivered, synth_failed, skipped, flush_seq>>
    /\ UNCHANGED <<cancelled, cache_api_vars, parser_vars>>

\* variant: the failure of the generation source ends the stream silently
GenRaise_NoErrorEvent ==
    /\ pc = "await_chunk"
    /\ gen_state' = "raised"
    /\ pc' = "closed"
    /\ UNCHANGED <<sentence_buffer, sentence_count, processed_hashes, sentence,
                   audio_data, attempt, events, chunks_read, svc_audio_data, cache,
                   last_cleanup, now, attempts_made, last_fail, stored, exhausted,
                   delivered, synth_failed, skipped, flush_seq>>
    /\ UNCHANGED <<cancelled, cache_api_vars, parser_vars>>

\* meditation.py:305, 424-426: the generation source raises
GenRaise ==
    /\ pc = "await_chunk"
    /\ events' = Append(events, ErrorEvent)
    /\ gen_state' = "raised"
    /\ pc' = "closed"
    /\ UNCHANGED <<sentence_buffer, sentence_count, processed_hashes, sentence,
                   audio_data, attempt, chunks_read, svc_audio_data, cache,
                   last_cleanup, now, attempts_made, last_fail, stored, exhausted>>
    /\ UNCHANGED <<delivered, synth_failed, skipped, flush_seq>>
    /\ UNCHANGED <<cancelled, cache_api_vars, parser_vars>>

\* meditation.py:317-319: no match, back to the generation source
ScanNoMatch ==
    /\ pc = "scan"
    /\ ~Search(sentence_buffer).found
    /\ pc' = "await_chunk"
    /\ UNCHANGED <<sentence_buffer, sentence_count, processed_hashes, sentence,
                   audio_data, attempt, events, chunks_read, svc_audio_data,
                   cache, last_cleanup, now, attempts_made, last_fail, stored, exhausted>>
    /\ UNCHANGED <<delivered, gen_state, synth_failed, skipped, flush_seq>>
    /\ UNCHANGED <<cancelled, cache_api_vars, parser_vars>>

\* variant: a duplicate sentence is skipped without being cut off the buffer
ScanSkip_KeepsBuffer ==
    /\ pc = "scan"
    /\ LET m == Search(sentence_buffer)
           s == Strip(Group(sentence_buffer, m))
       IN  /\ m.found
           /\ s = <<>> \/ IsDuplicate(s, processed_hashes)
           /\ sentence_buffer' = sentence_buffer
           /\ sentence' = s
           /\ skipped' = skipped \cup {s}
    /\ UNCHANGED <<pc, sentence_count, processed_hashes, audio_data, attempt,
                   events, chunks_read, svc_audio_data, cache, last_cleanup,
                   now, attempts_made, last_fail, stored, exhausted>>
    /\ UNCHANGED <<delivered, gen_state, synth_failed, flush_seq>>
    /\ UNCHANGED <<cancelled, cache_api_vars, parser_vars>>

\* meditation.py:321-332: an empty or an already processed sentence is
\* dropped from the buffer
ScanSkip ==
    /\ pc = "scan"
    /\ LET m == Search(sentence_buffer)
           s == Strip(Group(sentence_buffer, m))
       IN  /\ m.found
           /\ s = <<>> \/ IsDuplicate(s, processed_hashes)
           /\ sentence_buffer' = AfterMatch(sentence_buffer, m)
           /\ sentence' = s
           /\ skipped' = skipped \cup {s}
    /\ UNCHANGED <<pc, sentence_count, processed_hashes, audio_data, attempt,
                   events, chunks_read, svc_audio_data, cache, last_cleanup,
                   now, attempts_made, last_fail, stored, exhausted>>
    /\ UNCHANGED <<delivered, gen_state, synth_failed, flush_seq>>
    /\ UNCHANGED <<cancelled, cache_api_vars, parser_vars>>

\* meditation.py:321-340: a new sentence gets the next seq and its text event
EmitText ==
    /\ pc = "scan"
    /\ LET m == Search(sentence_buffer)
           s == Strip(Group(sentence_buffer, m))
       IN  /\ m.found
           /\ s # <<>>
           /\ ~IsDuplicate(s, processed_hashes)
           /\ processed_hashes' = processed_hashes \cup {Md5(s)}
           /\ sentence_count' = sentence_count + 1
           /\ sentence' = s
           /\ events' = Append(events, TextEvent(sentence_count + 1, s))
    /\ pc' = "text_sent"
    /\ UNCHANGED <<sentence_buffer, audio_data, attempt, chunks_read,
                   svc_audio_data, cache, last_cleanup, now, attempts_made,
                   last_fail, stored, exhausted>>
    /\ UNCHANGED <<delivered, gen_state, synth_failed, skipped, flush_seq>>
    /\ UNCHANGED <<cancelled, cache_api_vars, parser_vars>>

\* meditation.py:344-358: the sentence leaves the buffer; a pause marker
\* yields its pause event, any other sentence goes to synthesis
AfterText ==
    /\ pc = "text_sent"
    /\ sentence_buffer' = AfterMatch(sentence_buffer, Search(sentence_buffer))
    /\ IF LooksLikeMarker(sentence)
       THEN /\ events' =
                  IF PauseSearch(sentence).found
                  THEN Append(events,
                              PauseEvent(sentence_count,
                                         PauseDuration(sentence, PauseSearch(sentence))))
                  ELSE events
            /\ pc' = "scan"
            /\ UNCHANGED <<audio_data, attempt>>
       ELSE /\ audio_data' = <<>>
            /\ attempt' = 1
            /\ pc' = "attempt"
            /\ UNCHANGED events
    /\ UNCHANGED <<sentence_count, processed_hashes, sentence, chunks_read,
                   svc_audio_data, cache, last_cleanup, now, attempts_made,
                   last_fail, stored, exhausted>>
    /\ UNCHANGED <<delivered, gen_state, synth_failed, skipped, flush_seq>>
    /\ UNCHANGED <<cancelled, cache_api_vars, parser_vars>>

\* variant: after a failed attempt generate() goes on to the next sentence
AfterFailure_MovesOn(n) == "scan"

\* what follows a failed attempt: a backoff and another attempt, or, the
\* attempts used up (reraise=True), the except of meditation.py:410
AfterFailure(n) == IF RetryAllowed(n) THEN "backoff" ELSE "failed"

\* meditation.py:366-368, audio_service.py:96-105: an attempt starts
BeginAttempt ==
    /\ pc = "attempt"
    /\ audio_data' = AttemptBuffer(audio_data)
    /\ attempts_made' = attempts_made + 1
    /\ IF Strip(sentence) = <<>>
       THEN \* audio_service.py:96: nothing is yielded, meditation.py:374 raises
            /\ pc' = AfterFailure(attempt)
            /\ last_fail' = "empty"
            /\ synth_failed' = TRUE
            /\ UNCHANGED svc_audio_data
       ELSE /\ svc_audio_data' = <<>>
            /\ pc' = "provider"
            /\ UNCHANGED <<last_fail, synth_failed>>
    /\ UNCHANGED <<sentence_buffer, sentence_count, processed_hashes, sentence,
                   attempt, events, chunks_read, cache, last_cleanup, now, stored, exhausted>>
    /\ UNCHANGED <<delivered, gen_state, skipped, flush_seq>>
    /\ UNCHANGED <<cancelled, cache_api_vars, parser_vars>>

\* audio_service.py:105-106: the backend yields bytes
ProviderChunk ==
    /\ pc = "provider"
    /\ Len(svc_audio_data) < MaxProviderChunks
    /\ svc_audio_data' = Append(svc_audio_data, ProviderByte(sentence_count))
    /\ UNCHANGED <<pc, sentence_buffer, sentence_count, processed_hashes, sentence,
                   audio_data, attempt, events, chunks_read, cache, last_cleanup,
                   now, attempts_made, last_fail, stored, exhausted>>
    /\ UNCHANGED <<delivered, gen_state, synth_failed, skipped, flush_seq>>
    /\ UNCHANGED <<cancelled, cache_api_vars, parser_vars>>

\* the end of a backend call, normal or by an exception: what the service
\* yields is accumulated, and an empty result raises (meditation.py:368-376).
\* svc_audio_data keeps what the call had collected until the segment is left.
FinishAttempt(raised) ==
    /\ pc = "provider"
    /\ LET collected == IF raised THEN MarkFailed(svc_audio_data) ELSE svc_audio_data
           data == Accumulate(audio_data, ServiceYield(collected, raised))
       IN  /\ svc_audio_data' = collected
           /\ audio_data' = data
           /\ IF AttemptFails(data)
              THEN /\ pc' = AfterFailure(attempt)
                   /\ last_fail' =
                         IF ~raised THEN "empty"
                         ELSE IF svc_audio_data = <<>> THEN "raise" ELSE "partial"
                   /\ synth_failed' = TRUE
              ELSE /\ pc' = "store"
                   /\ UNCHANGED <<last_fail, synth_failed>>
    /\ UNCHANGED <<sentence_buffer, sentence_count, processed_hashes, sentence,
                   attempt, events, chunks_read, cache, last_cleanup, now,
                   attempts_made, stored, exhausted>>
    /\ UNCHANGED <<delivered, gen_state, skipped, flush_seq>>
    /\ UNCHANGED <<cancelled, cache_api_vars, parser_vars>>

\* audio_service.py:105-119: the backend stream ends
ProviderEnd == FinishAttempt(FALSE)

\* audio_service.py:105, 120-123: the backend raises
ProviderRaise == FinishAttempt(TRUE)

\* wait_exponential(multiplier=1, min=2, max=10), meditation.py:362
Backoff ==
    /\ pc = "backoff"
    /\ attempt' = attempt + 1
    /\ pc' = "attempt"
    /\ UNCHANGED <<sentence_buffer, sentence_count, processed_hashes, sentence,
                   audio_data, events, chunks_read, svc_audio_data, cache,
                   last_cleanup, now, attempts_made, last_fail, stored, exhausted>>
    /\ UNCHANGED <<delivered, gen_state, synth_failed, skipped, flush_seq>>
    /\ UNCHANGED <<cancelled, cache_api_vars, parser_vars>>

\* meditation.py:378-408: the audio is stored and its reference is sent
StoreAndRef ==
    /\ pc = "store"
    /\ IF audio_data # <<>>
       THEN /\ cache' = StoreChunk(cache, last_cleanup, SessionId, sentence_count,
                                   audio_data, now)
            /\ last_cleanup' = LastCleanupAfterStore(last_cleanup, now)
            /\ stored' = stored \cup
                  {[session |-> SessionId, seq |-> sentence_count, data |-> audio_data]}
            /\ events' = Append(events,
                  AudioRefEvent(SessionId, sentence_count, sentence, audio_data))
       ELSE UNCHANGED <<cache, last_cleanup, stored, events>>
    /\ attempt' = 0
    /\ attempts_made' = 0
    /\ last_fail' = "none"
    /\ svc_audio_data' = <<>>
    /\ pc' = "scan"
    /\ UNCHANGED <<sentence_buffer, sentence_count, processed_hashes, sentence,
                   audio_data, chunks_read, now, exhausted>>
    /\ UNCHANGED <<delivered, gen_state, synth_failed, skipped, flush_seq>>
    /\ UNCHANGED <<cancelled, cache_api_vars, parser_vars>>

\* variant: the last failure reaches the handler of meditation.py:424
SynthesisFailed_Propagates ==
    /\ pc = "failed"
    /\ exhausted' = exhausted \cup {sentence_count}
    /\ events' = Append(events, [type |-> "error", message |-> "str(e)"])
    /\ pc' = "closed"
    /\ UNCHANGED <<sentence_buffer, sentence_count, processed_hashes, sentence,
                   audio_data, attempt, chunks_read, svc_audio_data, cache,
                   last_cleanup, now, attempts_made, last_fail, stored,
                   delivered, gen_state, synth_failed, skipped, flush_seq>>
    /\ UNCHANGED <<cancelled, cache_api_vars, parser_vars>>

\* meditation.py:410-412: the attempts are used up; the error is logged and
\* the loop goes on with the next sentence
SynthesisFailed ==
    /\ pc = "failed"
    /\ exhausted' = exhausted \cup {sentence_count}
    /\ attempt' = 0
    /\ attempts_made' = 0
    /\ last_fail' = "none"
    /\ svc_audio_data' = <<>>
    /\ pc' = "scan"
    /\ UNCHANGED <<sentence_buffer, sentence_count, processed_hashes, sentence,
                   audio_data, events, chunks_read, cache, last_cleanup, now,
                   stored>>
    /\ UNCHANGED <<delivered, gen_state, synth_failed, skipped, flush_seq>>
    /\ UNCHANGED <<cancelled, cache_api_vars, parser_vars>>

\* meditation.py:414-418: what is left in the buffer is sent as text
FlushRemainder ==
    /\ pc = "drain"
    /\ Strip(sentence_buffer) # <<>>
    /\ sentence_count' = sentence_count + 1
    /\ events' = Append(events, TextEvent(sentence_count + 1, Strip(sentence_buffer)))
    /\ flush_seq' = sentence_count + 1
    /\ pc' = "finish"
    /\ UNCHANGED <<sentence_buffer, processed_hashes, sentence, audio_data,
                   attempt, chunks_read, svc_audio_data, cache, last_cleanup,
                   now, attempts_made, last_fail, stored, exhausted>>
    /\ UNCHANGED <<delivered, gen_state, synth_failed, skipped>>
    /\ UNCHANGED <<cancelled, cache_api_vars, parser_vars>>

\* variant: done repeats the last seq
Done_RepeatsSeq ==
    /\ \/ pc = "finish"
       \/ pc = "drain" /\ Strip(sentence_buffer) = <<>>
    /\ events' = Append(events, DoneEvent(sentence_count))
    /\ pc' = "closed"
    /\ UNCHANGED <<sentence_buffer, sentence_count, processed_hashes, sentence,
                   audio_data, attempt, chunks_read, svc_audio_data, cache,
                   last_cleanup, now, attempts_made, last_fail, stored, exhausted>>
    /\ UNCHANGED <<delivered, gen_state, synth_failed, skipped, flush_seq>>
    /\ UNCHANGED <<cancelled, cache_api_vars, parser_vars>>

\* meditation.py:420-422
Done ==
    /\ \/ pc = "finish"
       \/ pc = "drain" /\ Strip(sentence_buffer) = <<>>
    /\ events' = Append(events, DoneEvent(sentence_count + 1))
    /\ pc' = "closed"
    /\ UNCHANGED <<sentence_buffer, sentence_count, processed_hashes, sentence,
                   audio_data, attempt, chunks_read, svc_audio_data, cache,
                   last_cleanup, now, attempts_made, last_fail, stored, exhausted>>
    /\ UNCHANGED <<delivered, gen_state, synth_failed, skipped, flush_seq>>
    /\ UNCHANGED <<cancelled, cache_api_vars, parser_vars>>

\* the awaits at which generate() is suspended: the next chunk of the
\* generation source (meditation.py:305), the next bytes of the synthesis
\* call (meditation.py:368, audio_service.py:105) and the wait between two
\* attempts (meditation.py:362)
SuspensionPoints == {"await_chunk", "provider", "backoff"}

\* variant: the cancellation of a synthesis call counts as a failed attempt
Cancel_RetriedAsFailure ==
    /\ pc \in SuspensionPoints
    /\ cancelled' = TRUE
    /\ pc' = IF pc = "provider" THEN AfterFailure(attempt) ELSE "cancelled"
    /\ UNCHANGED <<sentence_buffer, sentence_count, processed_hashes, sentence,
                   audio_data, attempt, events, chunks_read, svc_audio_data, cache,
                   last_cleanup, now, attempts_made, last_fail, stored, exhausted,
                   delivered, gen_state, synth_failed, skipped, flush_seq>>
    /\ UNCHANGED <<cache_api_vars, parser_vars>>

\* the client disconnects and the task that runs generate() is cancelled:
\* asyncio.CancelledError is raised at the await where the coroutine is
\* suspended. It is a BaseException, so retry_if_exception_type(Exception)
\* does not retry it (meditation.py:359-363) and no `except Exception`
\* handler catches it (audio_service.py:120, meditation.py:410, 424): it
\* leaves generate() and nothing after the await is executed.
Cancel ==
    /\ pc \in SuspensionPoints
    /\ cancelled' = TRUE
    /\ pc' = "cancelled"
    /\ UNCHANGED <<sentence_buffer, sentence_count, processed_hashes, sentence,
                   audio_data, attempt, events, chunks_read, svc_audio_data, cache,
                   last_cleanup, now, attempts_made, last_fail, stored, exhausted,
                   delivered, gen_state, synth_failed, skipped, flush_seq>>
    /\ UNCHANGED <<cache_api_vars, parser_vars>>

\* time passes.  generate() reads the clock only inside store_chunk
\* (session_audio.py:24, 28), so the time that went by since the previous
\* read is accounted for when the next store is about to happen
Tick ==
    /\ pc = "store"
    /\ \E dt \in TickSteps :
          /\ now + dt <= MaxTicks * dt
          /\ now' = now + dt
    /\ UNCHANGED <<pc, sentence_buffer, sentence_count, processed_hashes, sentence,
                   audio_data, attempt, events, chunks_read, svc_audio_data,
                   cache, last_cleanup, attempts_made, last_fail, stored, exhausted>>
    /\ UNCHANGED <<delivered, gen_state, synth_failed, skipped, flush_seq>>
    /\ UNCHANGED <<cancelled, cache_api_vars, parser_vars>>

Next ==
    \/ SessionStart
    \/ \E c \in GenChunks : GenChunk(c)
    \/ GenEnd
    \/ GenRaise
    \/ ScanNoMatch
    \/ ScanSkip
    \/ EmitText
    \/ AfterText
    \/ BeginAttempt
    \/ ProviderChunk
    \/ ProviderEnd
    \/ ProviderRaise
    \/ Backoff
    \/ StoreAndRef
    \/ SynthesisFailed
    \/ FlushRemainder
    \/ Done
    \/ Cancel
    \/ Tick

Spec == Init /\ [][Next]_vars

\* the steps generate() takes by itself between two awaits
PipelineStep ==
    \/ SessionStart
    \/ ScanNoMatch
    \/ ScanSkip
    \/ EmitText
    \/ AfterText
    \/ BeginAttempt
    \/ StoreAndRef
    \/ SynthesisFailed
    \/ FlushRemainder
    \/ Done

\* the generation source answers the await of meditation.py:305: a chunk,
\* its end, or an exception
SourceStep == (\E c \in GenChunks : GenChunk(c)) \/ GenEnd \/ GenRaise

\* the synthesis call answers the await of audio_service.py:105: bytes, its
\* end, or an exception
SynthesisStep == ProviderChunk \/ ProviderEnd \/ ProviderRaise

\* generate() with the clock at rest: store_chunk reads the clock but never
\* waits for it, so the passing of time changes what the cache keeps and
\* not which step generate() takes next
FairNext ==
    \/ PipelineStep
    \/ SourceStep
    \/ SynthesisStep
    \/ Backoff
    \/ Cancel

\* generate() under a scheduler that runs it whenever it can run, with a
\* generation source that eventually ends or raises, synthesis calls that
\* eventually return or raise, and backoff timers that fire.  Nothing is
\* assumed of the client (Cancel).
FairSpec ==
    /\ Init /\ [][FairNext]_vars
    /\ WF_vars(PipelineStep)
    /\ WF_vars(SourceStep)
    /\ WF_vars(SynthesisStep)
    /\ WF_vars(Backoff)

\* the same with the clock of Spec, of which nothing is assumed either
FairSpecWithClock ==
    /\ Spec
    /\ WF_vars(PipelineStep)
    /\ WF_vars(SourceStep)
    /\ WF_vars(SynthesisStep)
    /\ WF_vars(Backoff)

\* the SessionAudioManager under calls of its three operations
CacheSpec == Init /\ [][CacheNext]_vars

\* the ScriptParser under the calls of a caller that streams text to it
ParserSpec == Init /\ [][ParserNext]_vars

----------------------------------------------------------------------------
(* Reading the event stream *)

\* the events after session_start
StreamEvents == IF events = <<>> THEN <<>> ELSE Tail(events)

IsType(e, t) == e.type = t

\* the positions of the stream's events of one of the given types
Positions(types) == {i \in 1..Len(events) : events[i].type \in types}

TextAndPauseEvents == SelectSeq(events, LAMBDA e : e.type \in {"text", "pause"})

\* type, seq and payload of an event, in one shape for every type
Brief(e) ==
    [type |-> e.type,
     seq |-> IF e.type \in {"text", "pause", "audio_ref", "done"} THEN e.seq ELSE 0,
     content |-> IF e.type = "text" THEN e.content ELSE <<>>,
     duration |-> IF e.type = "pause" THEN e.duration ELSE 0]

BriefText(n, content) == [type |-> "text", seq |-> n, content |-> content, duration |-> 0]
BriefAudioRef(n) == [type |-> "audio_ref", seq |-> n, content |-> <<>>, duration |-> 0]
BriefPause(n, d) == [type |-> "pause", seq |-> n, content |-> <<>>, duration |-> d]
BriefDone(n) == [type |-> "done", seq |-> n, content |-> <<>>, duration |-> 0]

BriefStream == [i \in 1..Len(StreamEvents) |-> Brief(StreamEvents[i])]

StoredSeqs == {r.seq : r \in stored}

\* generate() is inside the retry loop of the current segment, or was there
\* when it was cancelled
InSynthesis ==
    \/ pc \in {"attempt", "provider", "backoff", "store", "failed"}
    \/ cancelled /\ attempts_made > 0

----------------------------------------------------------------------------
(* C1 *)

ScenarioSentence1 == <<"jin", "tian", "hen", "lei", FS>>
ScenarioSentence2 == <<"fang", "song", "yi", "xia", FS>>

ScenarioExpected ==
    << BriefText(1, ScenarioSentence1), BriefAudioRef(1), BriefPause(2, 5),
       BriefText(3, ScenarioSentence2), BriefAudioRef(3), BriefDone(4) >>

ScenarioRan ==
    /\ pc = "closed"
    /\ delivered = <<ScenarioChunk1, ScenarioChunk2>>
    /\ gen_state = "ended"
    /\ ~synth_failed

\* C1: when the generation source delivers the scenario's text as its two
\* chunks and ends, and no synthesis attempt fails, the events after
\* session_start are text(1), audio_ref(1), pause(2, 5), text(3),
\* audio_ref(3), done(4).
C1_EndToEndScenario == ScenarioRan => BriefStream = ScenarioExpected

\* what generate() yields in the scenario: the marker is part of the second
\* sentence, because the marker's "[" starts a match of the first alternative
ScenarioActual ==
    << BriefText(1, ScenarioSentence1), BriefAudioRef(1),
       BriefText(2, <<"[", "5", "s", "]">> \o ScenarioSentence2), BriefAudioRef(2),
       BriefDone(3) >>

C1_ScenarioAsCoded == ScenarioRan => BriefStream = ScenarioActual

----------------------------------------------------------------------------
(* C2 *)

\* every audio_ref follows a text event with its seq and its text
AudioRefMatchesText ==
    \A j \in Positions({"audio_ref"}) :
        \E i \in 1..(j - 1) :
            /\ events[i].type = "text"
            /\ events[i].seq = events[j].seq
            /\ events[i].content = events[j].text

\* C2: the seq values of the text and pause events, in emission order, are
\* 1, 2, 3, ... (strictly increasing, no gap, one seq per text and per pause
\* segment), and every audio_ref carries the seq of its sentence's text event.
C2_SeqStrictlyIncreasing ==
    /\ \A i \in 1..Len(TextAndPauseEvents) : TextAndPauseEvents[i].seq = i
    /\ AudioRefMatchesText

----------------------------------------------------------------------------
(* C3 *)

CurrentTextSent ==
    \E i \in Positions({"text"}) :
        events[i].seq = sentence_count /\ events[i].content = sentence

\* C3: every audio_ref(n, t) comes after a text event (n, t) of the same
\* stream, and synthesis for a sentence runs only once its text event is out.
C3_TextBeforeAudio ==
    /\ AudioRefMatchesText
    /\ InSynthesis => CurrentTextSent
    /\ attempts_made > 0 => InSynthesis

C3_Witness == Positions({"audio_ref"}) # {}

----------------------------------------------------------------------------
(* C4 *)

\* the text events of sentences the extraction loop found
LoopTextPositions == {i \in Positions({"text"}) : events[i].seq # flush_seq}

----------------------------------------------------------------------------
(* C5 *)

HasChunk(c, session_id, seq_id) ==
    session_id \in DOMAIN c /\ HasKey(c[session_id], seq_id)

\* data holds nothing but bytes of a backend call for segment n that did
\* not raise
OnlyGoodBytesOf(data, n) == \A i \in 1..Len(data) : data[i] = ProviderByte(n)

\* C5: what is stored for a segment, and so what its audio_ref refers to,
\* is exactly what the backend call of the successful attempt yielded; no
\* byte of an attempt that raised is in it.
C5_RetriesNeverMixAttempts ==
    /\ pc = "store" =>
          /\ audio_data = svc_audio_data
          /\ audio_data # <<>>
          /\ OnlyGoodBytesOf(audio_data, sentence_count)
    /\ \A r \in stored : r.data # <<>> /\ OnlyGoodBytesOf(r.data, r.seq)
    /\ \A j \in Positions({"audio_ref"}) :
          \E r \in stored :
              /\ r.session = SessionId
              /\ r.seq = events[j].seq
              /\ HasChunk(cache, SessionId, r.seq)
                    => GetChunk(cache, SessionId, r.seq) = r.data

C5_Witness == pc = "store" /\ attempts_made > 1 /\ last_fail = "partial"

----------------------------------------------------------------------------
(* C6 *)

----------------------------------------------------------------------------
(* C7 *)

\* C7: an attempt that ends without bytes never leaves the retry loop as a
\* success: it is followed by a backoff while attempts remain and by the
\* failure handler otherwise, as for an attempt that raised; nothing empty
\* is stored and every audio_ref has non-empty stored audio.
C7_EmptyResultIsFailure ==
    /\ pc = "store" => audio_data # <<>>
    /\ \A kind \in {"empty", "raise", "partial"} :
          last_fail = kind =>
              /\ pc = "backoff" => attempts_made < MaxAttempts
              /\ pc = "failed" => attempts_made = MaxAttempts
              /\ pc \in {"attempt", "provider", "store"} => attempts_made <= MaxAttempts
    /\ pc \in {"backoff", "failed"} => audio_data = <<>> /\ last_fail # "none"
    /\ \A r \in stored : r.data # <<>>
    /\ \A sid \in DOMAIN cache :
          \A i \in 1..Len(cache[sid]) : cache[sid][i].data # <<>>
    /\ \A j \in Positions({"audio_ref"}) : events[j].seq \in StoredSeqs

C7_Witness == pc = "backoff" /\ last_fail = "empty"

----------------------------------------------------------------------------
(* C8 *)

\* C8: a segment whose attempts all failed has had its text event, has no
\* audio_ref and nothing stored; a synthesis failure never yields an error
\* event and never ends the stream, which still ends with done once the
\* generation source has ended.
C8_SynthesisFailureIsLocal ==
    /\ \A n \in exhausted :
          /\ \E i \in Positions({"text"}) : events[i].seq = n
          /\ \A j \in Positions({"audio_ref"}) : events[j].seq # n
          /\ n \notin StoredSeqs
          /\ ~HasChunk(cache, SessionId, n)
    /\ pc = "failed" => CurrentTextSent
    /\ Positions({"error"}) # {} => gen_state = "raised"
    /\ gen_state = "open" => pc # "closed"
    /\ pc = "closed" /\ gen_state = "ended" => events[Len(events)].type = "done"

C8_Witness ==
    /\ pc = "closed"
    /\ events[Len(events)].type = "done"
    /\ \E n \in exhausted : \E j \in Positions({"audio_ref"}) : events[j].seq > n

----------------------------------------------------------------------------
(* C9 *)

\* C9: when the generation source raises, the stream gets exactly one error
\* event, which is its last event, and no done event; generate() is over.
C9_SourceFailureIsFatal ==
    gen_state = "raised" =>
        /\ pc = "closed"
        /\ events[Len(events)] = ErrorEvent
        /\ Cardinality(Positions({"error"})) = 1
        /\ Positions({"done"}) = {}

C9_Witness == gen_state = "raised" /\ Positions({"audio_ref"}) # {}

----------------------------------------------------------------------------
(* C10 *)

\* C10: the remainder flushed at the end of the generation source goes
\* through synthesis like any other text segment: once the stream is over
\* its audio is stored and referenced under its seq, or its attempts were
\* used up.
C10_RemainderIsSynthesized ==
    pc = "closed" /\ flush_seq # 0 =>
        \/ /\ flush_seq \in StoredSeqs
           /\ \E j \in Positions({"audio_ref"}) : events[j].seq = flush_seq
        \/ flush_seq \in exhausted

----------------------------------------------------------------------------
(* C11 *)

\* the seq values assigned to the stream's segments so far
AssignedSeqs == {events[i].seq : i \in Positions({"text", "pause", "audio_ref"})}

\* the highest seq assigned in the stream, 0 when no segment was emitted
LastSeq == IF AssignedSeqs = {} THEN 0
           ELSE CHOOSE n \in AssignedSeqs : \A m \in AssignedSeqs : m <= n

\* C11: a stream whose generation source ended normally has, once generate()
\* is over, exactly one done event; it is the last event and its seq is the
\* highest seq assigned in the stream plus 1 (1 when no segment was
\* emitted).  No done event is out while generate() is still running.
C11_DoneClosesTheStream ==
    /\ gen_state = "ended" /\ pc = "closed" =>
          /\ Cardinality(Positions({"done"})) = 1
          /\ events[Len(events)].type = "done"
          /\ events[Len(events)].seq = LastSeq + 1
    /\ Positions({"done"}) # {} => pc = "closed" /\ gen_state = "ended"

C11_Witness ==
    /\ gen_state = "ended" /\ pc = "closed"
    /\ Positions({"pause"}) # {}
    /\ Positions({"audio_ref"}) # {}
    /\ flush_seq # 0

C11_WitnessEmpty == gen_state = "ended" /\ pc = "closed" /\ LastSeq = 0

----------------------------------------------------------------------------
(* C12 *)

\* the cache holds at most one entry per (session, seq)
AtMostOneEntryPerKey ==
    \A sid \in DOMAIN cache :
        \A i, j \in 1..Len(cache[sid]) :
            cache[sid][i].seq = cache[sid][j].seq => i = j

\* every cached entry holds exactly the bytes last stored under its key
HoldsLatestBytes ==
    \A sid \in DOMAIN cache :
        \A i \in 1..Len(cache[sid]) :
            /\ <<sid, cache[sid][i].seq>> \in DOMAIN api_latest
            /\ cache[sid][i].data = api_latest[<<sid, cache[sid][i].seq>>]

----------------------------------------------------------------------------
(* C13 *)

\* C13: after store(sid, seq, b), a cleanup(max_age_seconds = 0) made as the
\* next call leaves no entry of session sid: fetch(sid, k) finds nothing for
\* every k.
C13_CleanupZeroAfterStore ==
    api_op.name = "cleanup" /\ api_op.max_age = 0 /\ api_op.after_store # "" =>
        \A k \in CacheSeqs : ~InCache(cache, api_op.after_store, k)

----------------------------------------------------------------------------
(* C14 *)

\* C14: right after a cleanup pass with threshold T (a cleanup call, or the
\* pass a store runs), no session is left whose oldest entry is older than
\* T: such a session was purged with all its entries, whatever the order of
\* the stores and overwrites that built it.
C14_EvictionByOldestEntry ==
    api_op.swept =>
        \A sid \in DOMAIN cache :
            \A i \in 1..Len(cache[sid]) :
                ~(api_op.t - cache[sid][i].ts > api_op.max_age)

----------------------------------------------------------------------------
(* C15 *)

\* what the last retrieval request answered is what the cache holds
FetchAnswerIsRight ==
    api_op.name = "fetch" =>
        IF InCache(cache, api_op.session_id, api_op.seq_id)
        THEN /\ api_op.status = StatusOk
             /\ api_op.content = api_latest[<<api_op.session_id, api_op.seq_id>>]
        ELSE /\ api_op.status = StatusNotFound
             /\ api_op.content = <<>>

\* a retrieval request leaves the cache as it was
FetchChangesNothing ==
    api_op'.name = "fetch" /\ api_calls' # api_calls =>
        /\ cache' = cache
        /\ last_cleanup' = last_cleanup

\* C15: a retrieval request for a key that was never stored or was evicted
\* answers not-found (it does not fail), one for a cached key answers the
\* stored bytes, and no retrieval request changes the cache.
C15_FetchIsTotalAndPure == []FetchAnswerIsRight /\ [][FetchChangesNothing]_vars

C15_Witness ==
    /\ api_op.name = "fetch"
    /\ api_op.status = StatusNotFound
    /\ DOMAIN cache # {}
    /\ api_calls = MaxCacheOps

----------------------------------------------------------------------------
(* C16 *)

\* C16: parse_streaming on the buffer "Hello.[3s]World." returns the
\* segments Text("Hello."), Pause(3), Text("World.") and an empty remainder.
C16_PauseThenResume ==
    parser_op = "parse_streaming" /\ full_text = HelloWorld =>
        /\ segments = << TextSegment(<<"H", "e", "l", "l", "o", ".">>),
                         PauseSegment(3),
                         TextSegment(<<"W", "o", "r", "l", "d", ".">>) >>
        /\ buffer = <<>>

\* what parse_streaming returns for that buffer: it returns at the first
\* marker and leaves the text after it in the remainder
C16_AsCoded ==
    parser_op = "parse_streaming" /\ full_text = HelloWorld =>
        /\ segments = << TextSegment(<<"H", "e", "l", "l", "o", ".">>),
                         PauseSegment(3) >>
        /\ buffer = <<"W", "o", "r", "l", "d", ".">>

----------------------------------------------------------------------------
(* C17 *)

\* C17: every Pause segment parse_streaming returns has a duration above 0
\* (and so has every pause event of the pipeline, C17_PauseEventsArePositive).
C17_PauseSegmentsArePositive ==
    \A i \in 1..Len(segments) :
        segments[i].type = "pause" => segments[i].duration > 0

\* the pipeline's half of C17: every pause event has a duration above 0
C17_PauseEventsArePositive ==
    \A i \in Positions({"pause"}) : events[i].duration > 0

----------------------------------------------------------------------------
(* C18 *)

\* the number of runs of sentence endings in a text
RECURSIVE BoundariesFrom(_, _)
BoundariesFrom(text, i) ==
    IF i > Len(text) THEN 0
    ELSE IF IsSentenceEnding(text[i])
         THEN 1 + BoundariesFrom(text, EndingRunEnd(text, i))
         ELSE BoundariesFrom(text, i + 1)

\* the contents of the segments, one after the other
RECURSIVE ContentsOf(_)
ContentsOf(segs) ==
    IF segs = <<>> THEN <<>> ELSE Head(segs).content \o ContentsOf(Tail(segs))

\* a text made of complete sentences: it ends in a sentence ending, and
\* every run of sentence endings has text other than whitespace before it
RECURSIVE CompleteSentencesFrom(_, _)
CompleteSentencesFrom(text, i) ==
    IF i > Len(text) THEN TRUE
    ELSE LET j == TextRunEnd(text, i)
         IN  /\ j <= Len(text)
             /\ Strip(SubSeq(text, i, j - 1)) # <<>>
             /\ CompleteSentencesFrom(text, EndingRunEnd(text, j))

\* C18: for a buffer of complete sentences without a pause marker,
\* parse_streaming returns one Text segment per run of sentence endings,
\* and the segment contents followed by the remainder are the buffer.
C18_RoundTrip ==
    /\ parser_op = "parse_streaming"
    /\ full_text # <<>>
    /\ CompleteSentencesFrom(full_text, 1)
    /\ ~PauseSearch(full_text).found
    => /\ Len(segments) = BoundariesFrom(full_text, 1)
       /\ ContentsOf(segments) \o buffer = full_text

\* the count half of C18, which parse_streaming meets
C18_CountAsCoded ==
    /\ parser_op = "parse_streaming"
    /\ full_text # <<>>
    /\ CompleteSentencesFrom(full_text, 1)
    /\ ~PauseSearch(full_text).found
    => Len(segments) = BoundariesFrom(full_text, 1)

----------------------------------------------------------------------------
(* C20 *)

\* the segments of a script in script order: the sentences of the text
\* before the first marker, the marker's pause when its duration is above
\* 0, then the segments of what follows the marker
RECURSIVE ScriptSegments(_)
ScriptSegments(text) ==
    LET m == PauseSearch(text)
    IN  IF ~m.found THEN TextSegments(text)
        ELSE TextSegments(SubSeq(text, 1, m.start - 1))
             \o (IF PauseDuration(text, m) > 0
                 THEN <<PauseSegment(PauseDuration(text, m))>> ELSE <<>>)
             \o ScriptSegments(AfterMatch(text, m))

\* C20: parse(script) returns, in script order, one Text segment for every
\* non-blank sentence of the script and one Pause segment for every marker
\* of positive duration.
C20_ParseReturnsWholeScript ==
    parser_op = "parse" => parse_result = ScriptSegments(script)

\* the markers' half of C20, which parse meets: the Pause segments
C20_PausesAsCoded ==
    parser_op = "parse" =>
        SelectSeq(parse_result, LAMBDA g : g.type = "pause")
            = SelectSeq(ScriptSegments(script), LAMBDA g : g.type = "pause")

----------------------------------------------------------------------------
(* C19 *)

\* the chunks, one after the other: the generated text
RECURSIVE Flatten(_)
Flatten(chunks) ==
    IF chunks = <<>> THEN <<>> ELSE Head(chunks) \o Flatten(Tail(chunks))

\* the durations of the pause directives of positive duration in a text,
\* in text order
RECURSIVE DirectiveDurations(_)
DirectiveDurations(text) ==
    LET m == PauseSearch(text)
    IN  IF ~m.found THEN <<>>
        ELSE (IF PauseDuration(text, m) > 0
              THEN <<PauseDuration(text, m)>> ELSE <<>>)
             \o DirectiveDurations(AfterMatch(text, m))

\* the durations of the stream's pause events of positive duration, in
\* emission order
PauseEventDurations ==
    LET pauses == SelectSeq(events, LAMBDA e : e.type = "pause")
        positive == SelectSeq(pauses, LAMBDA e : e.duration > 0)
    IN  [i \in 1..Len(positive) |-> positive[i].duration]

\* C19: in a stream whose generation source ended, every pause directive
\* of positive duration in the generated text has given one pause event
\* with its duration, in text order; a pause event has a seq of its own (no
\* text event carries it); and no directive was handed to synthesis (no
\* audio_ref and no stored chunk is for a text with a directive in it).
C19_EveryDirectiveYieldsOnePause ==
    pc = "closed" /\ gen_state = "ended" =>
        /\ PauseEventDurations = DirectiveDurations(Flatten(delivered))
        /\ \A i \in Positions({"pause"}) :
              \A j \in Positions({"text"}) : events[j].seq # events[i].seq
        /\ \A j \in Positions({"audio_ref"}) : ~PauseSearch(events[j].text).found

\* the first part of C19 alone: one pause event per directive
C19_OnePausePerDirective ==
    pc = "closed" /\ gen_state = "ended" =>
        PauseEventDurations = DirectiveDurations(Flatten(delivered))

\* the last part of C19 alone: no directive is synthesized
C19_NoDirectiveSynthesized ==
    \A j \in Positions({"audio_ref"}) : ~PauseSearch(events[j].text).found

----------------------------------------------------------------------------
(* C21 *)

\* what the last direct call of generate_silence(d, r) returned is
\* 2 * floor(r * d) bytes, d being duration_num / DurationDen: with n the
\* number of byte pairs, n <= r * d < n + 1
SilenceIsSizedAndZero ==
    silence.called =>
        LET n == Len(silence.data) \div 2
        IN  /\ Len(silence.data) = 2 * n
            /\ n * DurationDen <= silence.sample_rate * silence.duration_num
            /\ silence.sample_rate * silence.duration_num < (n + 1) * DurationDen
            /\ \A i \in 1..Len(silence.data) : silence.data[i] = 0
            /\ silence.data = GenerateSilence(silence.duration_num, silence.sample_rate)

\* a step that turns a Pause segment into a silence chunk calls no backend
PauseCallsNoBackend ==
    seg_index' # seg_index /\ chunk_out'.type = "silence" /\ seg_index <= Len(segments)
        => /\ backend_calls' = backend_calls
           /\ segments[seg_index].type = "pause"
           /\ chunk_out'.size = 2 * DefaultSampleRate * segments[seg_index].duration

\* C21: generate_silence(d, r) returns exactly 2 * floor(r * d) bytes, all
\* zero, the same for the same d and r whatever else has happened, and the
\* silence for a Pause segment is made without a backend call.
C21_SilenceIsPure == []SilenceIsSizedAndZero /\ [][PauseCallsNoBackend]_vars

C21_Witness ==
    /\ silence.called
    /\ silence.sample_rate * silence.duration_num = 9
    /\ Len(silence.data) = 8
    /\ chunk_out.type = "silence"
    /\ chunk_out.size > 0
    /\ backend_calls > 0

----------------------------------------------------------------------------
(* C22 *)

\* the seq values of the sentences sent to synthesis: the text events of
\* the extraction loop that are not pause markers
SpokenSeqs ==
    {events[i].seq : i \in {j \in LoopTextPositions : ~LooksLikeMarker(events[j].content)}}

\* all attempts for segment n are over: its audio is stored, or its
\* attempts are used up
SynthesisOver(n) == n \in StoredSeqs \/ n \in exhausted

\* the seq values of the audio_ref events, in emission order
AudioRefSeqs ==
    LET refs == SelectSeq(events, LAMBDA e : e.type = "audio_ref")
    IN  [i \in 1..Len(refs) |-> refs[i].seq]

\* C22: synthesis is sequential within a stream: the attempt that is
\* running, if any, is for the latest segment; every earlier segment has
\* all its attempts behind it (audio stored, or attempts used up) before an
\* attempt for the next one starts; and the audio_ref events come in
\* increasing seq order.
C22_OneSynthesisAtATime ==
    /\ \A n \in SpokenSeqs : n < sentence_count => SynthesisOver(n)
    /\ \A n \in SpokenSeqs :
          n = sentence_count /\ ~InSynthesis /\ pc # "text_sent" => SynthesisOver(n)
    /\ \A i \in 1..Len(svc_audio_data) : svc_audio_data[i].seg = sentence_count
    /\ pc = "provider" => sentence_count \in SpokenSeqs /\ ~SynthesisOver(sentence_count)
    /\ \A i, j \in 1..Len(AudioRefSeqs) : i < j => AudioRefSeqs[i] < AudioRefSeqs[j]

C22_Witness ==
    /\ pc = "provider"
    /\ sentence_count = 2
    /\ attempts_made > 1
    /\ SynthesisOver(1)
    /\ 1 \in SpokenSeqs

----------------------------------------------------------------------------
(* C23 *)

\* a step of a cancelled stream reads no chunk, starts no attempt, stores
\* nothing and emits nothing
CancelledStreamIsInert ==
    cancelled =>
        /\ chunks_read' = chunks_read
        /\ delivered' = delivered
        /\ attempts_made' = attempts_made
        /\ attempt' = attempt
        /\ svc_audio_data' = svc_audio_data
        /\ cache' = cache
        /\ stored' = stored
        /\ events' = events
        /\ pc' = pc

\* C23: once the client has disconnected while generate() is suspended
\* (waiting for a generation chunk, for synthesis bytes, or in a retry
\* backoff), the pipeline requests no further generation chunk, starts no
\* further synthesis attempt (the cancellation is not counted as a failed
\* attempt and retried), stores nothing more and emits no further event.
C23_CancelStopsThePipeline ==
    /\ [](cancelled => pc = "cancelled")
    /\ [][cancelled' /\ ~cancelled => pc \in SuspensionPoints /\ events' = events
                                      /\ cache' = cache]_vars
    /\ [][CancelledStreamIsInert]_vars

\* cancelled in the middle of the retries of a segment, with retries left
\* and chunks left to read
C23_Witness ==
    /\ cancelled
    /\ attempts_made \in 2..(MaxAttempts - 1)
    /\ ~SynthesisOver(sentence_count)
    /\ chunks_read < MaxChunks
    /\ gen_state = "open"

----------------------------------------------------------------------------
(* C24 *)

\* cleanup() reads the first entry of every session it finds non-empty
\* (session_audio.py:48-49) and deletes each listed session once
\* (session_audio.py:54-55): with no empty session in the cache neither
\* step can raise
NoEmptySession == \A sid \in DOMAIN cache : cache[sid] # <<>>

\* a retrieval request answers not-found, or the bytes of the most recent
\* store to its key
FetchIsNotFoundOrLatest ==
    api_op.name = "fetch" =>
        \/ api_op.status = StatusNotFound /\ api_op.content = <<>>
        \/ /\ api_op.status = StatusOk
           /\ <<api_op.session_id, api_op.seq_id>> \in DOMAIN api_latest
           /\ api_op.content = api_latest[<<api_op.session_id, api_op.seq_id>>]

\* a store of one stream leaves the entries of every other session as they
\* were, unless its cleanup pass removes that session as a whole
StoreLeavesOtherSessions ==
    api_op'.name = "store" /\ api_calls' # api_calls =>
        \A sid \in DOMAIN cache' \ {api_op'.session_id} :
            sid \in DOMAIN cache /\ cache'[sid] = cache[sid]

\* C24: the streams share one cache safely.  store (with the cleanup check
\* it makes), fetch and cleanup are plain functions with no await, so each
\* runs as one step; under every interleaving of the stores of several
\* sessions, retrieval requests and cleanups no step can raise, the cache
\* has at most one entry per (session, seq), a store does not touch the
\* entries of another session, and a fetch answers not-found or exactly the
\* bytes of the most recent store to its key.
C24_SharedCacheIsSafe ==
    /\ [](NoEmptySession /\ AtMostOneEntryPerKey /\ FetchIsNotFoundOrLatest)
    /\ [][StoreLeavesOtherSessions]_vars

\* two sessions hold the same seq with different bytes, and a retrieval
\* request made after both stores answers the bytes of its own session
C24_Witness ==
    /\ api_op.name = "fetch"
    /\ api_op.status = StatusOk
    /\ DOMAIN cache = CacheSessions
    /\ \E s \in CacheSessions \ {api_op.session_id} :
          /\ InCache(cache, s, api_op.seq_id)
          /\ GetChunk(cache, s, api_op.seq_id) # api_op.content

----------------------------------------------------------------------------
(* C25 *)

\* the positions of all text events of the stream
TextPositions == Positions({"text"})

\* C25: in one stream no two text events carry the same content (compared
\* after trimming), the text event made from the remaining buffer at the end
\* of the generation source included.
C25_NoTextTwice ==
    \A i, j \in TextPositions :
        Strip(events[i].content) = Strip(events[j].content) => i = j

\* the part of C25 about the sentences extracted while streaming
C25_NoLoopTextTwice ==
    \A i, j \in LoopTextPositions :
        Strip(events[i].content) = Strip(events[j].content) => i = j

----------------------------------------------------------------------------
(* C26 *)

\* the characters of a text that are not whitespace
NonWhitespace(text) == {text[i] : i \in {j \in 1..Len(text) : text[j] \notin Whitespace}}

\* the characters shown in the text events of the stream
ShownCharacters ==
    UNION {NonWhitespace(events[i].content) : i \in Positions({"text"})}

\* the characters of the sentences skipped as duplicates
SkippedCharacters == UNION {NonWhitespace(s) : s \in skipped}

\* the characters of the pause directives of a text
RECURSIVE DirectiveCharacters(_)
DirectiveCharacters(text) ==
    LET m == PauseSearch(text)
    IN  IF ~m.found THEN {}
        ELSE NonWhitespace(Group(text, m)) \cup DirectiveCharacters(AfterMatch(text, m))

\* when the generation source has ended normally and the stream is closed,
\* every non-whitespace character that was delivered is shown in a text
\* event, or is of a pause directive or of a skipped duplicate
DeliveredTextIsShown ==
    pc = "closed" /\ gen_state = "ended" =>
        NonWhitespace(Flatten(delivered)) \subseteq
            ShownCharacters \cup SkippedCharacters
                \cup DirectiveCharacters(Flatten(delivered))

\* what a step cuts off the front of the buffer is, after trimming, the
\* sentence or marker it has emitted or skipped
CutIsEmittedOrSkipped ==
    Len(sentence_buffer') < Len(sentence_buffer) =>
        Strip(SubSeq(sentence_buffer, 1, Len(sentence_buffer) - Len(sentence_buffer')))
            = sentence'

\* C26: no generated text is lost.  In a stream whose generation source ends
\* normally every non-whitespace character delivered appears in some text
\* event, unless it is of a pause directive or of a sentence skipped as a
\* duplicate; and the text removed from the buffer when a sentence or pause
\* marker is extracted is exactly the text emitted or skipped.
C26_NoTextIsLost == []DeliveredTextIsShown /\ [][CutIsEmittedOrSkipped]_vars

\* the first part of C26 alone
C26_DeliveredTextIsShown == DeliveredTextIsShown

\* the second part of C26 alone
C26_CutIsEmittedOrSkipped == [][CutIsEmittedOrSkipped]_vars

----------------------------------------------------------------------------
(* C27 *)

\* the last event of the stream is an audio_ref, just emitted by the store
\* step
RefJustEmitted == events # <<>> /\ events[Len(events)].type = "audio_ref" /\ pc = "scan"

\* the bytes synthesized for segment n of the stream
SynthesizedFor(n) == (CHOOSE r \in stored : r.seq = n).data

\* C27: an emitted reference is retrievable: at the moment audio_ref(n) is
\* emitted, fetch(session, n) returns exactly the bytes synthesized for the
\* segment; the store before the audio_ref, with the cleanup it may run,
\* never leaves the entry it has just stored absent.
C27_EmittedRefIsRetrievable ==
    /\ RefJustEmitted /\ sentence_count = events[Len(events)].seq =>
          LET n == events[Len(events)].seq
          IN  /\ InCache(cache, SessionId, n)
              /\ n \in StoredSeqs
              /\ GetMeditationAudio(cache, SessionId, n).status = StatusOk
              /\ GetMeditationAudio(cache, SessionId, n).content = SynthesizedFor(n)

\* C27 for the stores whose cleanup pass did not remove the session
C27_RetrievableUnlessSwept ==
    RefJustEmitted /\ sentence_count = events[Len(events)].seq /\ SessionId \in DOMAIN cache =>
        LET n == events[Len(events)].seq
        IN  /\ InCache(cache, SessionId, n)
            /\ GetMeditationAudio(cache, SessionId, n).content = SynthesizedFor(n)

----------------------------------------------------------------------------
(* C28 *)

\* a session of cache c has an entry older than max_age at clock reading t
HasOldEntry(c, sid, max_age, t) ==
    \E i \in 1..Len(c[sid]) : t - c[sid][i].ts > max_age

\* what a cleanup pass with threshold max_age at clock reading t may do to
\* the cache c it finds, leaving c_after
PassRemovesOnlyOldSessions(c, c_after, max_age, t) ==
    /\ DOMAIN c_after \subseteq DOMAIN c
    /\ \A sid \in DOMAIN c :
          /\ ~HasOldEntry(c, sid, max_age, t) => sid \in DOMAIN c_after
          /\ sid \in DOMAIN c_after => c_after[sid] = c[sid]

\* the cleanup passes: those of a cleanup call, and those a store runs on
\* the cache that holds its new entry
CleanupPassIsSound ==
    /\ api_op'.name = "cleanup" /\ api_calls' # api_calls =>
          PassRemovesOnlyOldSessions(cache, cache', api_op'.max_age, now)
    /\ api_op'.name = "store" /\ api_calls' # api_calls /\ api_op'.swept =>
          PassRemovesOnlyOldSessions(
              PutChunk(cache, api_op'.session_id, api_op'.seq_id, api_op'.data, now),
              cache', DefaultMaxAge, now)

\* C28: cleanup(maxAge) removes only sessions that have an entry older than
\* maxAge: a session all of whose entries were stored within the last maxAge
\* seconds keeps every entry with its bytes unchanged, and a session that is
\* removed loses all its entries in the same pass, never a part of them.
C28_CleanupRemovesWholeOldSessions ==
    /\ [][CleanupPassIsSound]_vars
    /\ [](api_op.swept => api_op.removed \cap DOMAIN cache = {})

\* a cleanup pass found two sessions, removed one and kept the other, which
\* holds an old entry behind a fresh first one or only fresh entries
C28_Witness ==
    /\ api_op.name = "cleanup"
    /\ api_op.removed # {}
    /\ \E sid \in DOMAIN cache : Len(cache[sid]) = 2

\* a store's own pass removed a session
C28_StoreWitness ==
    /\ api_op.name = "store"
    /\ api_op.swept
    /\ api_op.removed # {}
    /\ DOMAIN cache # {}

----------------------------------------------------------------------------
(* C29 *)

\* the events after session_start that generate() yields for a buffer it
\* holds whole, when every synthesis succeeds and the generation source has
\* ended: the extraction loop (meditation.py:315-353), an audio_ref for
\* each sentence sent to synthesis (380-406), then the remainder and done
\* (414-422).  n is sentence_count, hashes is processed_hashes.
RECURSIVE EventsOfBuffer(_, _, _)
EventsOfBuffer(buf, n, hashes) ==
    LET m == Search(buf)
        s == Strip(Group(buf, m))
    IN  IF ~m.found
        THEN IF Strip(buf) # <<>>
             THEN <<BriefText(n + 1, Strip(buf)), BriefDone(n + 2)>>
             ELSE <<BriefDone(n + 1)>>
        ELSE IF s = <<>> \/ IsDuplicate(s, hashes)
        THEN EventsOfBuffer(AfterMatch(buf, m), n, hashes)
        ELSE <<BriefText(n + 1, s)>>
             \o (IF LooksLikeMarker(s)
                 THEN IF PauseSearch(s).found
                      THEN <<BriefPause(n + 1, PauseDuration(s, PauseSearch(s)))>>
                      ELSE <<>>
                 ELSE <<BriefAudioRef(n + 1)>>)
             \o EventsOfBuffer(AfterMatch(buf, m), n + 1, hashes \cup {Md5(s)})

\* the stream of a generation source that delivers text as one chunk
EventsOfWhole(text) == EventsOfBuffer(text, 0, {})

\* a stream that ran to its end with a generation source that ended normally
\* and a synthesizer that succeeded at every attempt
RanWithoutFailure == pc = "closed" /\ gen_state = "ended" /\ ~synth_failed

\* EventsOfWhole is the stream generate() yields for one chunk
OneChunkStreamIsEventsOfWhole ==
    RanWithoutFailure /\ Len(delivered) = 1 => BriefStream = EventsOfWhole(delivered[1])

\* C29: chunking independence: with a synthesizer that behaves the same
\* (here: succeeds at every attempt), the text, pause, audio_ref and done
\* events of a stream (types, seq values, contents, pause durations) depend
\* only on the concatenation of the generated text: they are the events of
\* the stream that gets the same text as one chunk, however the generation
\* source splits it.
C29_ChunkingIndependence ==
    RanWithoutFailure => BriefStream = EventsOfWhole(Flatten(delivered))

C29_OneChunkWitness ==
    /\ RanWithoutFailure
    /\ Len(delivered) = 1
    /\ Positions({"pause"}) # {}

----------------------------------------------------------------------------
(* C30 *)

TerminalPositions == Positions({"done", "error"})

\* a stream that is over has exactly one terminal event, its last event
OneTerminalEventAtTheEnd ==
    /\ pc = "closed" => TerminalPositions = {Len(events)}
    /\ pc # "closed" => TerminalPositions = {}

\* nothing is emitted after the terminal event
NothingAfterTerminal == TerminalPositions # {} => events' = events

\* each extraction shortens the buffer, so the loop over it ends
ExtractionShortensBuffer ==
    pc = "scan" /\ pc' = "scan" /\ ~cancelled' =>
        Len(sentence_buffer') < Len(sentence_buffer)

\* C30: termination.  When the generation source eventually ends or raises
\* and every synthesis attempt eventually returns or raises, a stream that is
\* not cancelled eventually emits exactly one terminal event (done or error,
\* never both) and nothing after it; the sentence-extraction loop ends for
\* every buffer; and a segment whose synthesis keeps failing costs at most 5
\* attempts.
C30_Termination ==
    /\ <>(pc = "closed" \/ cancelled)
    /\ []OneTerminalEventAtTheEnd
    /\ [][NothingAfterTerminal]_vars
    /\ [][ExtractionShortensBuffer]_vars
    /\ [](attempts_made <= MaxAttempts)
    /\ [](pc = "failed" => attempts_made = MaxAttempts)

\* a stream that ended with done after a segment used up its 5 attempts and
\* a duplicate sentence was skipped
C30_Witness ==
    /\ pc = "closed"
    /\ ~cancelled
    /\ exhausted # {}
    /\ events[Len(events)].type = "done"

\* a stream that ended with error
C30_ErrorWitness ==
    /\ pc = "closed"
    /\ events[Len(events)].type = "error"
    /\ Positions({"text"}) # {}

====
